---- MODULE Spec2Model ----
(***************************************************************************)
(* A model of bot.py: the sqlite Store (events, reminders, event_rsvps),   *)
(* the APScheduler job table, the slash-command handlers, the dispatch     *)
(* coroutines and the on_ready reconciliation.                             *)
(*                                                                         *)
(* Time is a natural number; one unit stands for one minute, so a lead     *)
(* offset m moves an instant by m units.  None/NULL is the empty sequence  *)
(* and a present value x is <<x>>.                                         *)
(***************************************************************************)
EXTENDS Integers, Sequences, FiniteSets, TLC

\* ---------------------------------------------------------------- bounds
MaxTime == 3
MaxEvents == 1
MaxReminders == 1
MaxRsvpEvents == 1
MaxMessages == 2
MaxLoadEvents == 2
MaxIdItems == 2

None == <<>>
Some(x) == <<x>>
Val(o) == o[1]

Times == 0..MaxTime

\* ------------------------------------------------------- inputs (bounded)
\* A `when` text is modelled by what dateparser makes of it: the instant it
\* denotes, or Unparsed for a text dateparser returns nothing for.
Unparsed == 0 - 1
WhenInputs == {None, Some(Unparsed)} \cup {Some(t) : t \in Times}

\* A cron text is modelled by the fields str.split() cuts it into.
CronEveryMinute == <<"*", "*", "*", "*", "*">>
CronFourFields == <<"*", "*", "*", "*">>
CronBadMinute == <<"61", "*", "*", "*", "*">>
CronInputs == {None, Some(CronEveryMinute), Some(CronFourFields), Some(CronBadMinute)}

\* A lead_minutes text is modelled by its comma-separated pieces: an integer
\* literal, a blank piece or a piece int() rejects.
IntPiece(n) == [k |-> "int", v |-> n]
BlankPiece == [k |-> "blank", v |-> 0]
JunkPiece == [k |-> "junk", v |-> 0]
LeadInputs ==
  { <<>>,
    <<IntPiece(2), IntPiece(1)>>,
    <<IntPiece(1), BlankPiece, IntPiece(1)>>,
    <<IntPiece(0), IntPiece(2)>>,
    <<IntPiece(0 - 1)>>,
    <<JunkPiece>> }
\* every offset value that can occur in a job id
Offsets == {0 - 1, 0, 1, 2}

Guilds == {1, 2}
CreateGuilds == {1}
Users == {1, 2}
RemindUsers == {1}
ChannelInputs == {None, Some(1)}
Statuses == {"going", "maybe", "not"}

\* ------------------------------------------------------------------ state
VARIABLES
  now,          \* datetime.now(timezone.utc)
  running,      \* scheduler.running
  events,       \* table events: id -> row
  eventSeq,     \* sqlite_sequence of events (AUTOINCREMENT)
  reminders,    \* table reminders: id -> row
  reminderSeq,  \* sqlite_sequence of reminders
  event_rsvps,  \* table event_rsvps: set of rows
  jobs,         \* the scheduler's job table: job id -> job
  tasks,        \* the coroutines the jobs' lambdas created: job id -> the coroutine, its
                \* argument and where it is: "start" (created, not yet run) or "deliver"
                \* (send_reminder suspended on its delivery call)
  announcing,   \* event_announce coroutines suspended on channel.send: the message posted
  messages,     \* posted announcements: message id -> the event and the RSVP counts shown
  msgSeq,       \* ids the chat platform has handed out for messages
  dispatched,   \* history: job id -> number of times its callback ran (capped at 2)
  delivered,    \* history: ids of the reminder jobs whose content reached the sink
  deletedItems, \* history: <<kind, id>> of rows removed by a delete command
  cast,         \* history: <<event id, user>> -> status of that user's latest vote
  stale,        \* history: ids of the jobs in the table whose one-shot trigger was due
                \* or past due when the latest reconciliation ran
  last          \* the handler that ran last and what it answered

vars == <<now, running, events, eventSeq, reminders, reminderSeq, event_rsvps,
          jobs, tasks, announcing, messages, msgSeq, dispatched, delivered,
          deletedItems, cast, stale, last>>

\* op: the handler; id: the row it addressed; res: its answer or outcome;
\* jobs: the job ids it added, removed or ran; arg: further inputs (on_ready:
\* the ids of the jobs added before the scheduler was started; set_status: the
\* user, the status and the statuses of the user's rows before the vote;
\* event_create: the when, cron and lead_minutes it was given)
LastArg(op, id, res, js, arg) == [op |-> op, id |-> id, res |-> res, jobs |-> js, arg |-> arg]
Last(op, id, res, js) == LastArg(op, id, res, js, <<>>)

\* ------------------------------------------------------------ pure helpers
Max(S) == CHOOSE x \in S : \A y \in S : y <= x
Min(S) == CHOOSE x \in S : \A y \in S : x <= y

RECURSIVE SortedDesc(_)
\* sorted(S, reverse=True)
SortedDesc(S) == IF S = {} THEN <<>> ELSE <<Max(S)>> \o SortedDesc(S \ {Max(S)})

RECURSIVE SortedAsc(_)
SortedAsc(S) == IF S = {} THEN <<>> ELSE <<Min(S)>> \o SortedAsc(S \ {Min(S)})

Range(s) == {s[i] : i \in 1..Len(s)}

\* parse_human_time
parse_human_time(w) == IF w = Unparsed THEN None ELSE Some(w)

\* {int(x.strip()) for x in text.split(',') if x.strip()}: int() raises ValueError
\* on a piece that is no integer literal
IntsParse(pieces) == \A i \in 1..Len(pieces) : pieces[i].k # "junk"
IntSet(pieces) == {pieces[i].v : i \in {n \in 1..Len(pieces) : pieces[n].k = "int"}}

\* the list event_create and schedule_loaded_jobs both build from that set
LeadList(S) == SelectSeq(SortedDesc(S), LAMBDA m : m > 0)

\* faulty variant: only the first offset of the list is written
LeadColumnFirst(lead_list) ==
  IF lead_list = <<>> THEN None ELSE Some(<<IntPiece(lead_list[1])>>)

\* ','.join(map(str, lead_list)) if lead_list else None: the column holds the
\* text, modelled by its pieces
LeadColumn(lead_list) ==
  IF lead_list = <<>> THEN None
  ELSE Some([i \in 1..Len(lead_list) |-> IntPiece(lead_list[i])])

\* the except branch of schedule_loaded_jobs: mins_list = []
StoredLeads(row) ==
  IF row.lead_minutes = None THEN <<>>
  ELSE IF ~IntsParse(Val(row.lead_minutes)) THEN <<>>
       ELSE LeadList(IntSet(Val(row.lead_minutes)))

\* minute, hour, dom, month, dow = cron.split(); CronTrigger(...) validates each field
FieldOk(f) == f \in {"*", "0"}
CronOk(fields) == Len(fields) = 5 /\ \A i \in 1..5 : FieldOk(fields[i])

EventJobId(id) == "event:" \o ToString(id)
LeadJobId(id, m) == "event:" \o ToString(id) \o ":lead:" \o ToString(m)
ReminderJobId(id) == "reminder:" \o ToString(id)

DateJob(run, func, target, mins) ==
  [trigger |-> "date", run |-> run, func |-> func, target |-> target, mins |-> mins]
\* a CronTrigger's next fire time is the first matching minute after now
CronJob(target) ==
  [trigger |-> "cron", run |-> now + 1, func |-> "send_event", target |-> target, mins |-> 0]

\* scheduler.add_job(..., id=j, replace_existing=True)
AddJob(js, j, job) == (j :> job) @@ js
\* try: scheduler.remove_job(j) except Exception: pass
RemoveJob(js, j) == [k \in DOMAIN js \ {j} |-> js[k]]
RemoveJobs(js, S) == [k \in DOMAIN js \ S |-> js[k]]
Drop(f, S) == [k \in DOMAIN f \ S |-> f[k]]

\* ------------------------------------------------------------------- Init
Init ==
  /\ now = 0
  /\ running = FALSE
  /\ events = <<>>
  /\ eventSeq = 0
  /\ reminders = <<>>
  /\ reminderSeq = 0
  /\ event_rsvps = {}
  /\ jobs = <<>>
  /\ tasks = <<>>
  /\ announcing = {}
  /\ messages = <<>>
  /\ msgSeq = 0
  /\ dispatched = <<>>
  /\ delivered = {}
  /\ deletedItems = {}
  /\ cast = <<>>
  /\ stale = {}
  /\ last = Last("init", 0, "", {})

\* ------------------------------------------------------------- scheduling
\* faulty variant: a lead due exactly now is scheduled too
LeadNotPast(run_dt, m) == run_dt - m >= now

\* lead_dt = run_dt - timedelta(minutes=m); lead_dt > datetime.now(timezone.utc)
LeadInFuture(run_dt, m) == run_dt - m > now

RECURSIVE AddLeadJobs(_, _, _, _)
\* for m in lead_list: lead_dt = run_dt - timedelta(minutes=m);
\*   if lead_dt > now: scheduler.add_job(..., id=f"event:{ev_id}:lead:{m}")
AddLeadJobs(js, id, run_dt, lead_list) ==
  IF lead_list = <<>> THEN js
  ELSE LET m == Head(lead_list)
           js1 == IF LeadInFuture(run_dt, m)
                  THEN AddJob(js, LeadJobId(id, m), DateJob(run_dt - m, "send_event", id, m))
                  ELSE js
       IN AddLeadJobs(js1, id, run_dt, Tail(lead_list))

\* the jobs event_create installs for a row with when_utc (no future test on the primary)
CreateDateJobs(js, id, run_dt, lead_list) ==
  AddLeadJobs(AddJob(js, EventJobId(id), DateJob(run_dt, "send_event", id, 0)),
              id, run_dt, lead_list)

RECURSIVE LoadEventDates(_, _)
\* first loop of schedule_loaded_jobs: events WHERE when_utc IS NOT NULL
LoadEventDates(js, ids) ==
  IF ids = {} THEN js
  ELSE LET id == Min(ids)
           run_dt == Val(events[id].when_utc)
           js1 == IF run_dt > now
                  THEN AddJob(js, EventJobId(id), DateJob(run_dt, "send_event", id, 0))
                  ELSE js
           js2 == AddLeadJobs(js1, id, run_dt, StoredLeads(events[id]))
       IN LoadEventDates(js2, ids \ {id})

RECURSIVE LoadEventCronsAbort(_, _)
\* faulty variant: the exception of a bad expression ends the loop
LoadEventCronsAbort(js, ids) ==
  IF ids = {} THEN js
  ELSE LET id == Min(ids)
       IN IF CronOk(Val(events[id].cron))
          THEN LoadEventCronsAbort(AddJob(js, EventJobId(id), CronJob(id)), ids \ {id})
          ELSE js

RECURSIVE LoadEventCrons(_, _)
\* second loop: events WHERE cron IS NOT NULL; a bad expression is logged and skipped
LoadEventCrons(js, ids) ==
  IF ids = {} THEN js
  ELSE LET id == Min(ids)
           js1 == IF CronOk(Val(events[id].cron))
                  THEN AddJob(js, EventJobId(id), CronJob(id))
                  ELSE js
       IN LoadEventCrons(js1, ids \ {id})

RECURSIVE LoadReminders(_, _)
\* third loop: every reminder whose when_utc is in the future
LoadReminders(js, ids) ==
  IF ids = {} THEN js
  ELSE LET id == Min(ids)
           when_dt == reminders[id].when_utc
           js1 == IF when_dt > now
                  THEN AddJob(js, ReminderJobId(id), DateJob(when_dt, "send_reminder", id, 0))
                  ELSE js
       IN LoadReminders(js1, ids \ {id})

schedule_loaded_jobs(js) ==
  LET a == LoadEventDates(js, {id \in DOMAIN events : events[id].when_utc # None})
      b == LoadEventCrons(a, {id \in DOMAIN events : events[id].cron # None})
  IN LoadReminders(b, DOMAIN reminders)

\* scheduler.start(): the jobs added while the scheduler was stopped are really
\* added now; a cron job's next fire time is computed from the current time
StartScheduler(js) ==
  [j \in DOMAIN js |-> IF js[j].trigger = "cron" THEN [js[j] EXCEPT !.run = now + 1] ELSE js[j]]

\* -------------------------------------------------------------- RSVP reads
\* compute_rsvp_counts: SELECT status, GROUP_CONCAT(user_id) ... GROUP BY status,
\* then split(',') and int(); the order inside a group is the index order
compute_rsvp_counts(event_id) ==
  [s \in Statuses |->
     SortedAsc({r.user_id : r \in {x \in event_rsvps : x.event_id = event_id /\ x.status = s}})]

EmptyCounts == [s \in Statuses |-> <<>>]

\* ---------------------------------------------------------------- actions
AnswerArg(op, id, res, arg) ==
  /\ last' = LastArg(op, id, res, {}, arg)
  /\ UNCHANGED <<now, running, events, eventSeq, reminders, reminderSeq, event_rsvps,
                 jobs, tasks, messages, msgSeq, dispatched, delivered, deletedItems, cast, announcing, stale>>

Answer(op, id, res) == AnswerArg(op, id, res, <<>>)

\* faulty variant: a plain INTEGER PRIMARY KEY, whose next rowid is one more than
\* the largest rowid in the table
NextRowid(seq, table) == IF DOMAIN table = {} THEN 1 ELSE Max(DOMAIN table) + 1

\* id INTEGER PRIMARY KEY AUTOINCREMENT: cur.lastrowid of an INSERT is one more than
\* the largest rowid the table has ever held, which sqlite_sequence remembers
NextId(seq, table) == seq + 1

\* the row /event create inserts
EventRow(guild, dt_utc, cron, lead_list) ==
  [guild_id |-> guild, when_utc |-> dt_utc, cron |-> cron,
   lead_minutes |-> LeadColumn(lead_list), message_id |-> None]

\* /event create
event_create(guild, when, cron, lead_minutes) ==
  LET dt_utc == IF when = None THEN None ELSE parse_human_time(Val(when))
      lead_list == IF lead_minutes = <<>> THEN <<>> ELSE LeadList(IntSet(lead_minutes))
      ev_id == NextId(eventSeq, events)
      row == EventRow(guild, dt_utc, cron, lead_list)
  IN IF when = None /\ cron = None
     THEN AnswerArg("event_create", 0, "need_when_or_cron", <<when, cron, lead_minutes>>)
     ELSE IF when # None /\ dt_utc = None
     THEN AnswerArg("event_create", 0, "bad_time", <<when, cron, lead_minutes>>)
     ELSE IF lead_minutes # <<>> /\ ~IntsParse(lead_minutes)
     THEN AnswerArg("event_create", 0, "bad_lead_minutes", <<when, cron, lead_minutes>>)
     ELSE
       /\ eventSeq' = ev_id
       /\ UNCHANGED <<now, running, reminders, reminderSeq, event_rsvps, tasks,
                      dispatched, delivered, deletedItems, cast, announcing, stale>>
       /\ IF dt_utc # None
          THEN \* one-off: primary and lead jobs, then announce_event
            /\ jobs' = CreateDateJobs(jobs, ev_id, Val(dt_utc), lead_list)
            /\ msgSeq' = msgSeq + 1
            /\ messages' = ((msgSeq + 1) :> [event_id |-> ev_id, counts |-> EmptyCounts])
                           @@ messages
            /\ events' = (ev_id :> [row EXCEPT !.message_id = Some(msgSeq + 1)]) @@ events
            /\ last' = LastArg("event_create", ev_id, "created_announced",
                               DOMAIN CreateDateJobs(<<>>, ev_id, Val(dt_utc), lead_list),
                               <<when, cron, lead_minutes>>)
          ELSE \* recurring: the row is already committed when the cron text is split
            /\ events' = (ev_id :> row) @@ events
            /\ UNCHANGED <<messages, msgSeq>>
            /\ IF CronOk(Val(cron))
               THEN /\ jobs' = AddJob(jobs, EventJobId(ev_id), CronJob(ev_id))
                    /\ last' = LastArg("event_create", ev_id, "created_recurring",
                                       {EventJobId(ev_id)}, <<when, cron, lead_minutes>>)
               ELSE /\ jobs' = jobs
                    /\ last' = LastArg("event_create", ev_id, "bad_cron", {},
                                       <<when, cron, lead_minutes>>)

\* faulty variant: event_delete cancels the primary job only
DeleteNoLeadIds(guild, event_id) == {}

\* the lead jobs event_delete cancels: for m in {int(x.strip()) ...}; nothing when
\* the row is not the guild's, has no lead_minutes or its text does not parse
DeleteLeadIds(guild, event_id) ==
  IF /\ event_id \in DOMAIN events
     /\ events[event_id].guild_id = guild
     /\ events[event_id].lead_minutes # None
     /\ IntsParse(Val(events[event_id].lead_minutes))
  THEN {LeadJobId(event_id, m) : m \in IntSet(Val(events[event_id].lead_minutes))}
  ELSE {}

\* faulty variant: event_delete deletes the row and cancels no job
EventDeleteKeepsJobs(guild, event_id) == jobs

\* the job table event_delete leaves
EventDeleteJobs(guild, event_id) ==
  RemoveJobs(RemoveJob(jobs, EventJobId(event_id)), DeleteLeadIds(guild, event_id))

\* faulty variant: the rows of event_rsvps are left behind
NoCascade(event_id) == event_rsvps

\* FOREIGN KEY (event_id) REFERENCES events(id) ON DELETE CASCADE, with
\* PRAGMA foreign_keys = ON: what DELETE FROM events leaves in event_rsvps
Cascade(event_id) == {r \in event_rsvps : r.event_id # event_id}

\* /event delete
event_delete(guild, event_id) ==
  LET deleted == event_id \in DOMAIN events /\ events[event_id].guild_id = guild
  IN /\ jobs' = EventDeleteJobs(guild, event_id)
     /\ events' = IF deleted THEN Drop(events, {event_id}) ELSE events
     /\ event_rsvps' = IF deleted THEN Cascade(event_id) ELSE event_rsvps
     /\ deletedItems' = IF deleted THEN deletedItems \cup {<<"event", event_id>>}
                        ELSE deletedItems
     /\ last' = Last("event_delete", event_id, IF deleted THEN "deleted" ELSE "not_found",
                     DOMAIN jobs \ DOMAIN jobs')
     /\ stale' = stale \cap DOMAIN EventDeleteJobs(guild, event_id)
     /\ UNCHANGED <<now, running, eventSeq, reminders, reminderSeq, tasks, announcing,
                    messages, msgSeq, dispatched, delivered, cast>>

\* /remind add
remind_add(user, when, channel) ==
  LET dt_utc == parse_human_time(when)
      rem_id == NextId(reminderSeq, reminders)
  IN IF dt_utc = None
     THEN Answer("remind_add", 0, "bad_time")
     ELSE
       /\ reminderSeq' = rem_id
       /\ reminders' = (rem_id :> [user_id |-> user, channel_id |-> channel,
                                   when_utc |-> Val(dt_utc)]) @@ reminders
       /\ jobs' = AddJob(jobs, ReminderJobId(rem_id),
                         DateJob(Val(dt_utc), "send_reminder", rem_id, 0))
       /\ last' = Last("remind_add", rem_id, "reminder_set", {ReminderJobId(rem_id)})
       /\ UNCHANGED <<now, running, events, eventSeq, event_rsvps, tasks, messages,
                      msgSeq, dispatched, delivered, deletedItems, cast, announcing, stale>>

\* /remind delete
remind_delete(user, reminder_id) ==
  LET deleted == reminder_id \in DOMAIN reminders /\ reminders[reminder_id].user_id = user
  IN /\ jobs' = RemoveJob(jobs, ReminderJobId(reminder_id))
     /\ reminders' = IF deleted THEN Drop(reminders, {reminder_id}) ELSE reminders
     /\ deletedItems' = IF deleted THEN deletedItems \cup {<<"reminder", reminder_id>>}
                        ELSE deletedItems
     /\ last' = Last("remind_delete", reminder_id, IF deleted THEN "deleted" ELSE "not_found",
                     DOMAIN jobs \ DOMAIN jobs')
     /\ stale' = stale \ {ReminderJobId(reminder_id)}
     /\ UNCHANGED <<now, running, events, eventSeq, reminderSeq, event_rsvps, tasks,
                    announcing, messages, msgSeq, dispatched, delivered, cast>>

Bump(d, j) == (j :> (IF j \in DOMAIN d /\ d[j] >= 1 THEN 2 ELSE 1)) @@ d

\* faulty variant: a job that has run is removed, whatever its trigger
AfterRunOnce(js, j) == RemoveJob(js, j)

\* the job table after the scheduler has run job j: a date job has no next fire
\* time and is removed, a cron job gets its next fire time
AfterRun(js, j) ==
  IF js[j].trigger = "cron" THEN [js EXCEPT ![j].run = now + 1] ELSE RemoveJob(js, j)

\* asyncio.create_task(...): the coroutine runs when the event loop gets to it
Task(func, target) == [func |-> func, target |-> target, pc |-> "start"]

\* the scheduler runs a due job: its lambda calls asyncio.create_task on send_event
\* or send_reminder
Fire(j) ==
  /\ running
  /\ j \in DOMAIN jobs
  /\ jobs[j].run = now
  /\ jobs' = AfterRun(jobs, j)
  /\ dispatched' = Bump(dispatched, j)
  /\ tasks' = (j :> Task(jobs[j].func, jobs[j].target)) @@ tasks
  /\ stale' = stale \cap DOMAIN AfterRun(jobs, j)
  /\ last' = Last("fire", jobs[j].target, jobs[j].func, {j})
  /\ UNCHANGED <<now, running, events, eventSeq, reminders, reminderSeq, event_rsvps,
                 announcing, messages, msgSeq, delivered, deletedItems, cast>>

\* send_event: the guild and the channel are looked up, then the text is posted
\* with the title and the ids the lambda captured; the Store is not read
send_event(j, resolvable) ==
  /\ j \in DOMAIN tasks
  /\ tasks[j].func = "send_event"
  /\ tasks' = Drop(tasks, {j})
  /\ last' = Last("send_event", tasks[j].target, IF resolvable THEN "sent" ELSE "unresolvable",
                  {j})
  /\ UNCHANGED <<now, running, events, eventSeq, reminders, reminderSeq, event_rsvps, jobs,
                 announcing, messages, msgSeq, dispatched, delivered, deletedItems, cast,
                 stale>>

\* with a channel_id whose guild or channel is not found send_reminder awaits nothing
\* and goes straight to its DELETE
SendsAtOnce(row, resolvable) == row.channel_id # None /\ ~resolvable

\* the DELETE that ends send_reminder
DeleteReminderRow(reminder_id) == Drop(reminders, {reminder_id})

\* send_reminder from its first line to its first await: `if not row: return`, then
\* either nothing to await or the suspension on the delivery call
StartOutcome(reminder_id, resolvable) ==
  IF reminder_id \notin DOMAIN reminders THEN "no_row"
  ELSE IF SendsAtOnce(reminders[reminder_id], resolvable) THEN "unresolvable"
  ELSE "awaiting"

\* the send_reminder coroutine starts: it reads its row
SendReminderStart(j, resolvable) ==
  LET reminder_id == tasks[j].target
      outcome == StartOutcome(reminder_id, resolvable)
  IN /\ j \in DOMAIN tasks
     /\ tasks[j].func = "send_reminder"
     /\ tasks[j].pc = "start"
     /\ tasks' = IF outcome = "awaiting"
                 THEN [tasks EXCEPT ![j].pc = "deliver"]
                 ELSE Drop(tasks, {j})
     /\ reminders' = IF outcome = "unresolvable"
                     THEN DeleteReminderRow(reminder_id)
                     ELSE reminders
     /\ last' = Last("send_reminder", reminder_id, outcome, {j})
     /\ UNCHANGED <<now, running, events, eventSeq, reminderSeq, event_rsvps, jobs,
                    announcing, messages, msgSeq, dispatched, delivered, deletedItems,
                    cast, stale>>

\* a date job found more than misfire_grace_time late is dropped without running
Misfire(j) ==
  /\ running
  /\ j \in DOMAIN jobs
  /\ jobs[j].run < now
  /\ jobs' = RemoveJob(jobs, j)
  /\ stale' = stale \ {j}
  /\ last' = Last("misfire", jobs[j].target, jobs[j].func, {j})
  /\ UNCHANGED <<now, running, events, eventSeq, reminders, reminderSeq, event_rsvps,
                 tasks, announcing, messages, msgSeq, dispatched, delivered, deletedItems,
                 cast>>

\* the reminders table after the delivery call of send_reminder: the call
\* returned and the DELETE ran, or it raised and the coroutine ended there
AfterDelivery(reminder_id, sent) ==
  IF sent THEN DeleteReminderRow(reminder_id) ELSE reminders

\* send_reminder resumes from channel.send / fetch_user / user.send
SendReminderResume(j, sent) ==
  LET reminder_id == tasks[j].target
  IN /\ j \in DOMAIN tasks
     /\ tasks[j].func = "send_reminder"
     /\ tasks[j].pc = "deliver"
     /\ tasks' = Drop(tasks, {j})
     /\ reminders' = AfterDelivery(reminder_id, sent)
     /\ delivered' = IF sent THEN delivered \cup {j} ELSE delivered
     /\ last' = Last("send_reminder", reminder_id, IF sent THEN "sent" ELSE "raised", {j})
     /\ UNCHANGED <<now, running, events, eventSeq, reminderSeq, event_rsvps, jobs,
                    messages, msgSeq, dispatched, deletedItems, cast, announcing, stale>>

\* time passes; a running scheduler runs its due jobs at their time, and the event
\* loop runs the coroutines that were created
Tick ==
  /\ now < MaxTime
  /\ \A j \in DOMAIN tasks : tasks[j].pc # "start"
  /\ running => \A j \in DOMAIN jobs : jobs[j].run > now
  /\ now' = now + 1
  /\ last' = Last("tick", 0, "", {})
  /\ UNCHANGED <<running, events, eventSeq, reminders, reminderSeq, event_rsvps, jobs,
                 tasks, messages, msgSeq, dispatched, delivered, deletedItems, cast, announcing, stale>>

\* the process dies and is started again: everything in memory is gone
Restart ==
  /\ jobs' = <<>>
  /\ tasks' = <<>>
  /\ announcing' = {}
  /\ running' = FALSE
  /\ stale' = {}
  /\ last' = Last("restart", 0, "", {})
  /\ UNCHANGED <<now, events, eventSeq, reminders, reminderSeq, event_rsvps, messages,
                 msgSeq, dispatched, delivered, deletedItems, cast>>

\* the one-shot triggers of the stored rows whose instant is not after now: the
\* primary of an event with when_utc, each of its stored lead offsets, a reminder
DueTriggers ==
  {EventJobId(id) : id \in {e \in DOMAIN events :
       events[e].when_utc # None /\ Val(events[e].when_utc) <= now}}
  \cup {LeadJobId(x[1], x[2]) : x \in {y \in (DOMAIN events) \X Offsets :
       /\ events[y[1]].when_utc # None
       /\ y[2] \in Range(StoredLeads(events[y[1]]))
       /\ Val(events[y[1]].when_utc) - y[2] <= now}}
  \cup {ReminderJobId(id) : id \in {r \in DOMAIN reminders : reminders[r].when_utc <= now}}

\* on_ready: init_db(), tree.sync(), then start and reconcile unless already running
on_ready ==
  /\ IF ~running
     THEN /\ running' = TRUE
          /\ jobs' = schedule_loaded_jobs(StartScheduler(jobs))
          /\ stale' = DueTriggers \cap DOMAIN schedule_loaded_jobs(StartScheduler(jobs))
          /\ last' = LastArg("on_ready", 0, "reconciled", DOMAIN schedule_loaded_jobs(<<>>),
                              <<DOMAIN jobs>>)
     ELSE /\ UNCHANGED <<running, jobs, stale>>
          /\ last' = Last("on_ready", 0, "already_running", {})
  /\ UNCHANGED <<now, events, eventSeq, reminders, reminderSeq, event_rsvps, tasks,
                 announcing, messages, msgSeq, dispatched, delivered, deletedItems, cast>>

\* ------------------------------------------------------------------- RSVP
\* faulty variant: the conflict target is the event alone: one row per event
UpsertPerEvent(rows, row) == {r \in rows : r.event_id # row.event_id} \cup {row}

\* faulty variant: a plain INSERT into a table without the primary key
InsertOnly(rows, row) == rows \cup {row}

\* INSERT INTO event_rsvps ... ON CONFLICT(event_id, user_id) DO UPDATE SET status, updated_at
Upsert(rows, row) ==
  {r \in rows : ~(r.event_id = row.event_id /\ r.user_id = row.user_id)} \cup {row}

\* what calling update_announcement_message with these positional arguments does:
\* the function takes (event_id, message); with both it reads the event row and,
\* when there is one, goes on to get_rsvp_counts, a name the module never defines
update_announcement_message(args) ==
  IF Len(args) # 2 THEN "TypeError"
  ELSE IF args[1] \notin DOMAIN events THEN "returned"
  ELSE "NameError"

\* RSVPView._set_status: the upsert is committed, then
\* update_announcement_message(self.event_id) is called, then the acknowledgement
_set_status(user, event_id, status) ==
  LET prior == {r.status : r \in {x \in event_rsvps :
                                    x.event_id = event_id /\ x.user_id = user}}
      row == [event_id |-> event_id, user_id |-> user, status |-> status,
              updated_at |-> now]
      render == update_announcement_message(<<event_id>>)
  IN /\ cast' = (<<event_id, user>> :> status) @@ cast
     /\ IF event_id \notin DOMAIN events
        THEN \* PRAGMA foreign_keys = ON: the INSERT raises IntegrityError
             /\ event_rsvps' = event_rsvps
             /\ last' = LastArg("set_status", event_id, "IntegrityError", {},
                                <<user, status, prior>>)
        ELSE /\ event_rsvps' = Upsert(event_rsvps, row)
             /\ last' = LastArg("set_status", event_id,
                                IF render = "returned" THEN "rsvp_updated" ELSE render,
                                {}, <<user, status, prior>>)
     /\ UNCHANGED <<now, running, events, eventSeq, reminders, reminderSeq, jobs, tasks,
                    messages, msgSeq, dispatched, delivered, deletedItems, announcing, stale>>

\* /event announce up to `msg = await channel.send(embed=embed, view=view)`: the
\* message with its RSVPView is posted, the coroutine waits for the call to return
event_announce(guild, event_id) ==
  IF event_id \notin DOMAIN events \/ events[event_id].guild_id # guild
  THEN Answer("event_announce", event_id, "not_found")
  ELSE /\ msgSeq' = msgSeq + 1
       /\ messages' = ((msgSeq + 1) :> [event_id |-> event_id, counts |-> EmptyCounts])
                      @@ messages
       /\ announcing' = announcing \cup {msgSeq + 1}
       /\ last' = Last("event_announce", event_id, "posted", {})
       /\ UNCHANGED <<now, running, events, eventSeq, reminders, reminderSeq, event_rsvps,
                      jobs, tasks, dispatched, delivered, deletedItems, cast, stale>>

\* event_announce resumes with msg: UPDATE events SET message_id=? WHERE id=?, then
\* the reply "Announced in ..."
AnnounceResume(m) ==
  LET event_id == messages[m].event_id
  IN /\ m \in announcing
     /\ announcing' = announcing \ {m}
     /\ events' = IF event_id \in DOMAIN events
                  THEN [events EXCEPT ![event_id].message_id = Some(m)]
                  ELSE events
     /\ last' = Last("event_announce", event_id, "announced", {})
     /\ UNCHANGED <<now, running, eventSeq, reminders, reminderSeq, event_rsvps, jobs,
                    tasks, messages, msgSeq, dispatched, delivered, deletedItems, cast,
                    stale>>

\* a vote needs a button: a posted announcement carrying the event's RSVPView
HasButtons(event_id) == \E m \in DOMAIN messages : messages[m].event_id = event_id

\* ------------------------------------------------------- the specifications
CreateEvent ==
  /\ eventSeq < MaxEvents
  /\ \E g \in CreateGuilds, w \in WhenInputs, c \in CronInputs, l \in LeadInputs :
       event_create(g, w, c, l)
DeleteEvent == \E g \in Guilds, id \in 1..MaxEvents : event_delete(g, id)
AddReminder ==
  /\ reminderSeq < MaxReminders
  /\ \E u \in RemindUsers, w \in Times \cup {Unparsed}, c \in ChannelInputs :
       remind_add(u, w, c)
DeleteReminder == \E u \in Users, id \in 1..MaxReminders : remind_delete(u, id)
FireJob == \E j \in DOMAIN jobs : Fire(j)
MisfireJob == \E j \in DOMAIN jobs : Misfire(j)
SendEvent == \E j \in DOMAIN tasks, r \in BOOLEAN : send_event(j, r)
StartSend == \E j \in DOMAIN tasks, r \in BOOLEAN : SendReminderStart(j, r)
ResumeSend == \E j \in DOMAIN tasks, s \in BOOLEAN : SendReminderResume(j, s)

Next ==
  \/ CreateEvent
  \/ DeleteEvent
  \/ AddReminder
  \/ DeleteReminder
  \/ FireJob
  \/ MisfireJob
  \/ SendEvent
  \/ StartSend
  \/ ResumeSend
  \/ Tick
  \/ Restart
  \/ on_ready

\* the scheduler: commands, the clock, dispatch, restart and reconciliation
Spec == Init /\ [][Next]_vars

RsvpCreate ==
  /\ eventSeq < MaxRsvpEvents
  /\ \E g \in CreateGuilds, w \in {None, Some(1)}, c \in {None, Some(CronEveryMinute)} :
       event_create(g, w, c, <<>>)
RsvpDelete == \E g \in Guilds, id \in 1..MaxRsvpEvents : event_delete(g, id)
Vote ==
  \E u \in Users, id \in 1..MaxRsvpEvents, s \in Statuses :
    HasButtons(id) /\ _set_status(u, id, s)
Announce ==
  /\ msgSeq < MaxMessages
  /\ \E g \in Guilds, id \in 1..MaxRsvpEvents : event_announce(g, id)
ResumeAnnounce == \E m \in announcing : AnnounceResume(m)

NextRsvp ==
  \/ RsvpCreate
  \/ RsvpDelete
  \/ Vote
  \/ Announce
  \/ ResumeAnnounce

\* the RSVP aggregate: events, their announcements, votes and deletion
SpecRsvp == Init /\ [][NextRsvp]_vars

LoadCreate ==
  /\ eventSeq < MaxLoadEvents
  /\ \E g \in CreateGuilds, w \in {None, Some(2)},
        c \in {None, Some(CronEveryMinute), Some(CronBadMinute)} :
       event_create(g, w, c, <<IntPiece(1)>>)
LoadRemind ==
  /\ reminderSeq < MaxReminders
  /\ \E u \in RemindUsers, w \in {1, 2} : remind_add(u, w, None)

NextLoad ==
  \/ LoadCreate
  \/ LoadRemind
  \/ FireJob
  \/ MisfireJob
  \/ SendEvent
  \/ StartSend
  \/ Tick
  \/ Restart
  \/ on_ready

\* several stored items at once: creation, dispatch, restart, reconciliation
SpecLoad == Init /\ [][NextLoad]_vars

FireCreate ==
  /\ eventSeq < MaxEvents
  /\ \E g \in CreateGuilds, w \in {None, Some(2)}, c \in {None, Some(CronEveryMinute)} :
       event_create(g, w, c, <<IntPiece(1)>>)
FireAnnounce ==
  /\ msgSeq < MaxMessages
  /\ \E g \in CreateGuilds, id \in 1..MaxEvents : event_announce(g, id)
FireVote ==
  \E id \in 1..MaxEvents, s \in {"going", "maybe"} : HasButtons(id) /\ _set_status(1, id, s)

NextFire ==
  \/ FireCreate
  \/ FireAnnounce
  \/ ResumeAnnounce
  \/ FireVote
  \/ FireJob
  \/ MisfireJob
  \/ SendEvent
  \/ Tick
  \/ on_ready

\* an event that is announced and voted on while its jobs run
SpecFire == Init /\ [][NextFire]_vars

IdCreateEvent ==
  /\ eventSeq < MaxIdItems
  /\ \E g \in CreateGuilds, s \in {<<Some(2), None>>, <<None, Some(CronEveryMinute)>>} :
       event_create(g, s[1], s[2], <<>>)
IdDeleteEvent == \E g \in CreateGuilds, id \in 1..MaxIdItems : event_delete(g, id)
IdAddReminder ==
  /\ reminderSeq < MaxIdItems
  /\ \E u \in RemindUsers : remind_add(u, 1, None)
IdDeleteReminder == \E u \in RemindUsers, id \in 1..MaxIdItems : remind_delete(u, id)

NextIds ==
  \/ IdCreateEvent
  \/ IdDeleteEvent
  \/ IdAddReminder
  \/ IdDeleteReminder
  \/ FireJob
  \/ MisfireJob
  \/ SendEvent
  \/ StartSend
  \/ ResumeSend
  \/ Tick
  \/ Restart
  \/ on_ready

\* rows that come and go: several creates and deletes in each table
SpecIds == Init /\ [][NextIds]_vars

NextLive ==
  \/ AddReminder
  \/ DeleteReminder
  \/ FireJob
  \/ MisfireJob
  \/ StartSend
  \/ ResumeSend
  \/ Tick
  \/ on_ready

\* a process that stays up: time advances, the scheduler runs the jobs that are
\* due and the event loop runs the coroutines that were created
SpecLive ==
  /\ Init
  /\ [][NextLive]_vars
  /\ WF_vars(Tick)
  /\ WF_vars(FireJob)
  /\ WF_vars(StartSend)
  /\ WF_vars(ResumeSend)

\* ----------------------------------------------------------------- claims
JobsOfEvent(id) ==
  {j \in DOMAIN jobs : j = EventJobId(id) \/ \E m \in Offsets : j = LeadJobId(id, m)}

\* C1: a create request answered "bad cron expression" has created no item: the
\* events table holds no row for it and the job table no job for it.
C1_BadCronCreatesNothing ==
  (last.op = "event_create" /\ last.res = "bad_cron")
    => (last.id \notin DOMAIN events /\ JobsOfEvent(last.id) = {})

\* the offsets written in a row's lead_minutes column
LeadOffsetsOf(row) ==
  IF row.lead_minutes = None THEN {}
  ELSE {Val(row.lead_minutes)[i].v : i \in 1..Len(Val(row.lead_minutes))}

Reconciled == last.op = "on_ready" /\ last.res = "reconciled"
Count(j) == IF j \in DOMAIN dispatched THEN dispatched[j] ELSE 0

\* C2: right after reconciliation every stored event and reminder whose instant is
\* strictly in the future has its primary job, a date job at the stored instant.
C2_PrimaryJobAfterReconcile ==
  Reconciled =>
    /\ \A id \in DOMAIN events :
         (events[id].when_utc # None /\ Val(events[id].when_utc) > now)
           => /\ EventJobId(id) \in DOMAIN jobs
              /\ jobs[EventJobId(id)].trigger = "date"
              /\ jobs[EventJobId(id)].run = Val(events[id].when_utc)
    /\ \A id \in DOMAIN reminders :
         reminders[id].when_utc > now
           => /\ ReminderJobId(id) \in DOMAIN jobs
              /\ jobs[ReminderJobId(id)].trigger = "date"
              /\ jobs[ReminderJobId(id)].run = reminders[id].when_utc

\* the lead jobs of event id, as the handler that ran last left them: `fresh`
\* says no job of the event can predate the handler
LeadJobsExact(id, pending) ==
  LET instant == Val(events[id].when_utc)
  IN /\ \A m \in LeadOffsetsOf(events[id]) :
          LET j == LeadJobId(id, m)
          IN /\ instant - m > now
                  => /\ j \in last.jobs
                     /\ j \in DOMAIN jobs
                     /\ jobs[j] = DateJob(instant - m, "send_event", id, m)
             /\ instant - m <= now
                  => /\ j \notin last.jobs
                     /\ j \notin pending => j \notin DOMAIN jobs
     /\ \A m \in Offsets \ LeadOffsetsOf(events[id]) : LeadJobId(id, m) \notin DOMAIN jobs

ItemJobIds(it) ==
  IF it[1] = "event"
  THEN {EventJobId(it[2])} \cup {LeadJobId(it[2], m) : m \in Offsets}
  ELSE {ReminderJobId(it[2])}

NoJobOfDeleted ==
  \A it \in deletedItems :
    /\ ItemJobIds(it) \cap DOMAIN jobs = {}
    /\ last.op = "fire" => ItemJobIds(it) \cap last.jobs = {}

RepeatedDelete ==
  \/ last'.op = "event_delete" /\ <<"event", last'.id>> \in deletedItems
  \/ last'.op = "remind_delete" /\ <<"reminder", last'.id>> \in deletedItems

\* C4: once a delete command has removed an item's row, the job table holds no job
\* keyed for that item, primary or lead, and none of those job ids fires later;
\* deleting the item again answers "not found" and changes neither Store nor jobs.
C4_DeleteCancelsJobs ==
  [][/\ NoJobOfDeleted'
     /\ RepeatedDelete
          => /\ last'.res = "not_found"
             /\ UNCHANGED <<events, reminders, event_rsvps, jobs, deletedItems>>]_vars

C4_Witness ==
  /\ last.op = "event_delete"
  /\ last.res = "deleted"
  /\ EventJobId(last.id) \in last.jobs
  /\ \E m \in Offsets : LeadJobId(last.id, m) \in last.jobs

\* C5: no one-shot trigger (the primary or a lead of an event with an instant, a
\* reminder) is dispatched more than once, whatever creates, fires and restarts
\* happen, and right after a reconciliation every item whose instant is still in
\* the future has a job under its id.
C5_NoLossNoDuplicate ==
  /\ \A id \in DOMAIN events :
       events[id].when_utc # None
         => /\ Count(EventJobId(id)) <= 1
            /\ \A m \in Offsets : Count(LeadJobId(id, m)) <= 1
            /\ (Reconciled /\ Val(events[id].when_utc) > now)
                 => EventJobId(id) \in DOMAIN jobs
  /\ \A id \in 1..reminderSeq :
       /\ Count(ReminderJobId(id)) <= 1
       /\ (Reconciled /\ id \in DOMAIN reminders /\ reminders[id].when_utc > now)
            => ReminderJobId(id) \in DOMAIN jobs

\* C6: every stored event has exactly one of when_utc and cron, and lead offsets
\* only together with when_utc.
C6_ScheduleInvariant ==
  \A id \in DOMAIN events :
    /\ (events[id].when_utc # None) # (events[id].cron # None)
    /\ events[id].lead_minutes # None => (events[id].when_utc # None /\ events[id].cron = None)

\* C7: when send_reminder has made its delivery attempt, sent or failed, the
\* reminder's row is gone.
C7_RowDeletedAfterAttempt ==
  (last.op = "send_reminder" /\ last.res \in {"sent", "raised", "unresolvable"})
    => last.id \notin DOMAIN reminders

Voted(e, u) == <<e, u>> \in DOMAIN cast
RowsOf(e, u) == {r \in event_rsvps : r.event_id = e /\ r.user_id = u}

TwoVoters(e, a, b) ==
  /\ e \in DOMAIN events
  /\ a # b
  /\ Voted(e, a) /\ cast[<<e, a>>] = "going"
  /\ Voted(e, b) /\ cast[<<e, b>>] = "maybe"
  /\ \A u \in Users \ {a, b} : ~Voted(e, u)

\* C8: when user A's latest vote on an event is going and user B's is maybe, in
\* whichever order the votes came, the aggregate read from the Store is
\* going [A], maybe [B], not [].
C8_BothVotesPersist ==
  \A e \in DOMAIN events, a \in Users, b \in Users :
    TwoVoters(e, a, b)
      => compute_rsvp_counts(e) = [going |-> <<a>>, maybe |-> <<b>>, not |-> <<>>]

C8_Witness ==
  /\ last.op = "set_status"
  /\ \E e \in DOMAIN events, a \in Users, b \in Users :
       TwoVoters(e, a, b) /\ Cardinality(event_rsvps) = 2

\* C9: there is at most one RSVP row per (event, user), its status is that of the
\* user's latest vote, every vote on a stored event has its row, and a vote equal
\* to the one already recorded leaves exactly one row with that status.
C9_OneRowPerVoter ==
  /\ \A r \in event_rsvps :
       /\ RowsOf(r.event_id, r.user_id) = {r}
       /\ Voted(r.event_id, r.user_id) /\ cast[<<r.event_id, r.user_id>>] = r.status
  /\ \A e \in DOMAIN events, u \in Users : Voted(e, u) => RowsOf(e, u) # {}
  /\ (last.op = "set_status" /\ last.res # "IntegrityError" /\ last.arg[3] = {last.arg[2]})
       => {r.status : r \in RowsOf(last.id, last.arg[1])} = {last.arg[2]}
          /\ Cardinality(RowsOf(last.id, last.arg[1])) = 1

C9_Witness ==
  /\ last.op = "set_status"
  /\ last.res # "IntegrityError"
  /\ last.arg[3] = {last.arg[2]}
  /\ Cardinality(RowsOf(last.id, last.arg[1])) = 1

\* C10: a vote on an announced event ends with the acknowledgement sent and the
\* announcement showing the counts read back from the Store.
C10_RerenderedAndAcknowledged ==
  (/\ last.op = "set_status"
   /\ last.id \in DOMAIN events
   /\ events[last.id].message_id # None)
    => /\ last.res = "rsvp_updated"
       /\ messages[Val(events[last.id].message_id)].counts = compute_rsvp_counts(last.id)

\* C11: when _set_status is over for a vote on a stored event the vote is in the
\* Store, whatever became of the re-render; and when the event has no message_id
\* the re-render is skipped without error, so the vote is acknowledged.
C11_VoteKeptRenderSkipped ==
  (last.op = "set_status" /\ last.id \in DOMAIN events)
    => /\ \E r \in event_rsvps :
            r.event_id = last.id /\ r.user_id = last.arg[1] /\ r.status = last.arg[2]
       /\ events[last.id].message_id = None => last.res = "rsvp_updated"

Accepted == last.op = "event_create" /\ last.res \in {"created_announced", "created_recurring"}

NonPositiveOffset(pieces) ==
  \E i \in 1..Len(pieces) : pieces[i].k = "int" /\ pieces[i].v <= 0

\* C13: an event_create whose lead_minutes holds a zero or negative offset is
\* answered with an error and inserts no row.
C13_NonPositiveLeadRejected ==
  (last.op = "event_create" /\ NonPositiveOffset(last.arg[3]))
    => /\ last.res \in {"need_when_or_cron", "bad_time", "bad_lead_minutes"}
       /\ last.id = 0

\* C14: a one-shot trigger (primary or lead of an event with an instant, a
\* reminder) whose instant is <= now when reconciliation runs gets no job from
\* it and no job of it is run afterwards, and reconciliation leaves its row in
\* the Store.
C14_PastDueNeverFired ==
  [][/\ Reconciled' => (DueTriggers' \cap last'.jobs = {} /\ UNCHANGED <<events, reminders>>)
     /\ last'.op = "fire" => last'.jobs \cap stale = {}]_vars

\* the stored events whose cron text CronTrigger does not accept
Malformed == {id \in DOMAIN events : events[id].cron # None /\ ~CronOk(Val(events[id].cron))}

\* the jobs reconciliation would add were the rows `bad` not in the events table
JobsWithout(bad) ==
  LET a == LoadEventDates(<<>>, {id \in DOMAIN events \ bad : events[id].when_utc # None})
      b == LoadEventCrons(a, {id \in DOMAIN events \ bad : events[id].cron # None})
  IN LoadReminders(b, DOMAIN reminders)

\* the job ids of every stored item but those of `bad`
OtherJobIds(bad) ==
  UNION {ItemJobIds(<<"event", id>>) : id \in DOMAIN events \ bad}
    \cup {ReminderJobId(id) : id \in DOMAIN reminders}

\* C15: when reconciliation meets rows with a malformed cron text, every other
\* stored item (event with an instant, event with a good cron, reminder) gets
\* from it exactly the jobs it would get were the malformed rows not stored.
C15_BadCronSkipsOnlyItsRow ==
  (Reconciled /\ Malformed # {})
    => \A j \in OtherJobIds(Malformed) :
         /\ j \in last.jobs <=> j \in DOMAIN JobsWithout(Malformed)
         /\ j \in DOMAIN JobsWithout(Malformed)
              => (j \in DOMAIN jobs /\ jobs[j] = JobsWithout(Malformed)[j])

C15_Witness ==
  /\ Reconciled
  /\ Malformed = {1}
  /\ 2 \in DOMAIN events
  /\ EventJobId(2) \in last.jobs
  /\ jobs[EventJobId(2)].trigger = "cron"
  /\ ReminderJobId(1) \in last.jobs

\* the row the coroutine of job j is about is not in the Store
RowAbsent(j) ==
  IF tasks[j].func = "send_reminder"
  THEN tasks[j].target \notin DOMAIN reminders
  ELSE tasks[j].target \notin DOMAIN events

\* this step is the coroutine of job j running from its start
RunsFromStart(j) ==
  /\ tasks[j].pc = "start"
  /\ last'.op = tasks[j].func
  /\ last'.jobs = {j}
  /\ (j \notin DOMAIN tasks' \/ tasks'[j].pc # "start")

\* C16: when the coroutine of a fired job runs and the Store has no row for its
\* item, it ends there: nothing is delivered, nothing is raised and the Store is
\* left as it was.
C16_AbsentRowFireIsNoOp ==
  [][\A j \in DOMAIN tasks :
       (RunsFromStart(j) /\ RowAbsent(j))
         => /\ j \notin DOMAIN tasks'
            /\ last'.res # "sent"
            /\ UNCHANGED <<events, reminders, event_rsvps, delivered>>]_vars

\* this step runs a job of an event, or the send_event coroutine such a job created
EventFireStep ==
  \/ last'.op = "fire" /\ last'.res = "send_event"
  \/ last'.op = "send_event"

\* C17: a fire of an event's job, cron, lead or primary, and the send_event it
\* starts leave the event's row and its RSVP rows as they were, and a cron job
\* is still in the job table, with its cron trigger, after it has run.
C17_FiresKeepParent ==
  [][EventFireStep
       => /\ UNCHANGED <<events, event_rsvps>>
          /\ last'.op = "fire"
               => \A j \in last'.jobs :
                    jobs[j].trigger = "cron"
                      => (j \in DOMAIN jobs' /\ jobs'[j].trigger = "cron")]_vars

C17_Witness ==
  /\ last.op = "fire"
  /\ last.id \in DOMAIN events
  /\ events[last.id].when_utc = None
  /\ last.jobs = {EventJobId(last.id)}
  /\ Count(EventJobId(last.id)) = 2
  /\ EventJobId(last.id) \in DOMAIN jobs
  /\ \E r \in event_rsvps : r.event_id = last.id

\* C18: whenever a lead job of an event is run, the event's primary job has not
\* been run yet.
C18_LeadBeforePrimary ==
  \A id \in 1..eventSeq, m \in Offsets :
    (last.op = "fire" /\ last.jobs = {LeadJobId(id, m)}) => Count(EventJobId(id)) = 0

\* row r of event_rsvps is gone after this step: no row has its key any more
RsvpRemoved(r) ==
  ~\E x \in event_rsvps' : x.event_id = r.event_id /\ x.user_id = r.user_id

\* C19: every row of event_rsvps is for an event that is stored; a row goes away
\* only in the step that deletes its event, and an event deleted takes all its
\* rows with it; a vote for an event that is not stored adds no row.
C19_RsvpIntegrity ==
  [][/\ \A r \in event_rsvps' : r.event_id \in DOMAIN events'
     /\ \A r \in event_rsvps :
          RsvpRemoved(r) => (r.event_id \in DOMAIN events /\ r.event_id \notin DOMAIN events')
     /\ (last'.op = "set_status" /\ last'.id \notin DOMAIN events')
          => event_rsvps' = event_rsvps]_vars

C19_Witness ==
  /\ last.op = "event_delete"
  /\ last.res = "deleted"
  /\ \E u \in Users : Voted(last.id, u)
  /\ \A r \in event_rsvps : r.event_id # last.id

Commands == {"event_create", "event_delete", "remind_add", "remind_delete"}

\* C20: reconciliation runs once in a process lifetime: an on_ready that finds the
\* scheduler running reconciles nothing and leaves the job table alone; and no
\* create or delete command is handled before the scheduler has been started and
\* the reconciliation of this lifetime has run.
C20_ReconcileOnceBeforeRequests ==
  [][/\ (last'.op = "on_ready" /\ running)
          => (last'.res = "already_running" /\ UNCHANGED jobs)
     /\ (last'.op = "on_ready" /\ ~running) => last'.res = "reconciled"
     /\ last'.op \in Commands => running]_vars

\* the ids the table of this kind has handed out so far: those of the rows it
\* holds, of the rows a delete command removed and of the reminders whose job ran
\* (send_reminder removes the row it delivered)
Assigned(kind) ==
  (IF kind = "event" THEN DOMAIN events ELSE DOMAIN reminders)
    \cup {it[2] : it \in {x \in deletedItems : x[1] = kind}}
    \cup (IF kind = "reminder"
          THEN {id \in 1..MaxIdItems : Count(ReminderJobId(id)) > 0}
          ELSE {})

\* this step inserted a row of this kind
Inserted(kind) ==
  IF kind = "event"
  THEN last'.op = "event_create" /\ last'.id # 0
  ELSE last'.op = "remind_add" /\ last'.id # 0

\* no job in the table and no coroutine created by a job is keyed for this item
Unaddressed(kind, id) ==
  ItemJobIds(<<kind, id>>) \cap (DOMAIN jobs \cup DOMAIN tasks) = {}

\* C21: a newly created event or reminder gets an id its table has never handed
\* out before, also when the highest-numbered row was deleted in between, and no
\* job scheduled earlier is keyed for that id.
C21_IdsNeverReused ==
  [][\A kind \in {"event", "reminder"} :
       Inserted(kind)
         => /\ last'.id \notin Assigned(kind)
            /\ Unaddressed(kind, last'.id)]_vars

C21_Witness ==
  /\ last.op = "event_create"
  /\ last.id = 2
  /\ DOMAIN events = {2}
  /\ <<"event", 1>> \in deletedItems
  /\ <<"reminder", 1>> \in deletedItems
  /\ DOMAIN reminders = {2}

\* C22: a delete command that answers "not found" (the row is another guild's or
\* another user's, or there is none) leaves the job table as it was.
C22_FailedDeleteKeepsJobs ==
  [][(last'.op \in {"event_delete", "remind_delete"} /\ last'.res = "not_found")
       => UNCHANGED jobs]_vars

\* reminder id has just been created, for an instant in the future, in a process
\* whose scheduler is started
CreatedForFuture(id) ==
  /\ last.op = "remind_add"
  /\ last.res = "reminder_set"
  /\ last.id = id
  /\ running
  /\ reminders[id].when_utc > now

\* send_reminder has run for reminder id, or its owner's delete has removed it
DispatchedOrDeleted(id) ==
  \/ last.op = "send_reminder" /\ last.id = id
  \/ <<"reminder", id>> \in deletedItems

\* C23: a reminder created for a future instant is eventually dispatched
\* (send_reminder runs for it) unless its owner deletes it first, whatever other
\* users do, when the process stays up and time advances.
C23_ReminderEventuallyDispatched ==
  \A id \in 1..MaxReminders : CreatedForFuture(id) ~> DispatchedOrDeleted(id)

\* the item the create command that ran last stored, if it stored one
CreatedItem ==
  IF Accepted THEN {<<"event", last.id>>}
  ELSE IF last.op = "remind_add" /\ last.res = "reminder_set" THEN {<<"reminder", last.id>>}
  ELSE {}

\* the jobs reconciliation would install for this item from the Store as it is now
LoadedFor(it) ==
  LET all == schedule_loaded_jobs(<<>>)
  IN [j \in DOMAIN all \cap ItemJobIds(it) |-> all[j]]

\* the jobs the create command installed
Installed == [j \in last.jobs |-> jobs[j]]

\* C24: right after event_create or remind_add has stored an item, the jobs it
\* installed (id, trigger, fire time) are those schedule_loaded_jobs would install
\* for the stored row at the same time.
C24_CreateAgreesWithReconcile ==
  \A it \in CreatedItem : Installed = LoadedFor(it)

\* the stored items
StoredItems ==
  {<<"event", id>> : id \in DOMAIN events} \cup {<<"reminder", id>> : id \in DOMAIN reminders}

\* job id j is keyed for a stored item and its callback is about that item
AddressesStored(j) ==
  \E it \in StoredItems :
    /\ j \in ItemJobIds(it)
    /\ jobs[j].target = it[2]
    /\ jobs[j].func = (IF it[1] = "event" THEN "send_event" ELSE "send_reminder")

\* C25: in every reachable state every job of the job table is keyed for an item
\* whose row is in the Store.
C25_JobsAddressStoredRows ==
  \A j \in DOMAIN jobs : AddressesStored(j)

C25_Witness ==
  /\ Reconciled
  /\ deletedItems # {}
  /\ DOMAIN dispatched # {}
  /\ DOMAIN jobs # {}
  /\ DOMAIN jobs = last.jobs

\* C26: once remind_delete has answered that a reminder is deleted, also while a
\* send_reminder for it is suspended on its delivery call, the reminder's row is
\* not in the Store and no delivery of it completes afterwards.
C26_DeletedIsNotDelivered ==
  \A id \in 1..reminderSeq :
    <<"reminder", id>> \in deletedItems
      => /\ id \notin DOMAIN reminders
         /\ ~(last.op = "send_reminder" /\ last.id = id /\ last.res = "sent")

====
